---- MODULE Spec2Model ----
(***************************************************************************)
(* Model of the chat server of Chat_app/server.py: the shared registries   *)
(* `clients` and `channels`, the single lock, and one worker thread        *)
(* (handle_client_connection) per accepted connection.                     *)
(*                                                                         *)
(* Granularity: recv's return and the dispatch (which reads only locals)   *)
(* are one step, which leaves a command that needs the shared state        *)
(* waiting at its `with lock`; the entry of `with lock` up to the first    *)
(* mutation or sendall, every further mutation group inside a critical     *)
(* section and the end of every sendall are steps of their own, so a       *)
(* worker can be observed waiting for the lock, inside a critical section  *)
(* and inside a write.  A worker "is inside sendall" exactly when its pc   *)
(* is one of WritePcs; the last entry of sent[w] is then the write in      *)
(* progress.                                                               *)
(***************************************************************************)
EXTENDS Naturals, Sequences, FiniteSets

\* ------------------------------------------------------------- bounds
\* Number of accepted connections (one worker thread each).
NumConns == 2

\* Nicknames, channel names and message texts are sequences of characters.
Nicks == {<<"a">>, <<"b">>}
Chans == {<<"x">>, <<"y">>}
Msgs  == {<<"m">>}
\* Names a /pm may address: the nicknames and one that nobody ever claims.
PmTargets == Nicks \cup {<<"g">>}

\* The local variable `nickname` before any successful /nick (None, which
\* `if not nickname` treats like the empty string).
NoNick == << >>
\* The lock is free.
NoConn == 0

\* The stripped messages a client may send, split at single spaces.
\* <<>> is a blank line; <<"/nick">> is "/nick" followed by nothing but
\* whitespace (strip() of the whole message removes it).
Lines ==
    {<<"/nick", n>> : n \in Nicks}
    \cup {<<"/join", c>> : c \in Chans}
    \cup {<<"/send", c, m>> : c \in Chans, m \in Msgs}
    \cup {<<"/send", c>> : c \in Chans}
    \cup {<<"/pm", n, m>> : n \in PmTargets, m \in Msgs}
    \cup {<<"/pm", n>> : n \in Nicks}
    \cup {<<"/quit">>, <<"/nick">>, <<"hello">>, <<>>}

VARIABLES
    clients,     \* dict nickname -> socket (the connection id)
    channels,    \* dict channel name -> set of nicknames
    lock,        \* the worker holding `lock`, or NoConn
    pc,          \* each worker's position in handle_client_connection
    nickname,    \* each worker's local `nickname`
    cmd,         \* each worker's current `message`, split at spaces
    sent,        \* each worker's sendall calls of the current command:
                 \* <<socket, line>>, or <<socket, line, "raised">> once a
                 \* Router write has raised
    todo,        \* members the broadcast loop of a worker has still to visit
    wire,        \* one connection's bytes the client has sent and recv has not returned
    handled,     \* that connection's recv results so far: <<data, message, branch>>
    routed,      \* for each sender followed, its broadcasts so far:
                 \* <<channel, text, sockets of the registered members but itself>>
    heard        \* for each socket followed, the sendall calls made on it by
                 \* the senders followed: <<worker, number of its broadcast, line>>

\* The accepted connections (one worker thread each).
Conns == DOMAIN pc

\* The variables of the byte-level view of one connection (see FramingSpec).
framing == <<wire, handled>>

\* The record of deliveries (see DeliverySpec): nothing is followed unless
\* the initial state says so.
observed == <<routed, heard>>

vars == <<clients, channels, lock, pc, nickname, cmd, sent, todo, wire, handled,
          routed, heard>>

\* ------------------------------------------------------------ helpers
\* del d[k]
DictDel(d, k) == [x \in (DOMAIN d) \ {k} |-> d[x]]

\* d[k] = v
DictPut(d, k, v) == [x \in (DOMAIN d) \cup {k} |-> IF x = k THEN v ELSE d[x]]

\* for ch in channels.values(): if nickname in ch: ch.remove(nickname)
PurgeAll(chs, n) == [c \in DOMAIN chs |-> chs[c] \ {n}]

\* Mutant of JoinChannel: a join replaces the member set of the channel.
JoinChannel_Replace(chs, c, n) ==
    [x \in (DOMAIN chs) \cup {c} |-> IF x = c THEN {n} ELSE chs[x]]

\* if channel_name not in channels: channels[channel_name] = set()
\* channels[channel_name].add(nickname)
JoinChannel(chs, c, n) ==
    DictPut(chs, c, (IF c \in DOMAIN chs THEN chs[c] ELSE {}) \cup {n})

\* message.startswith(prefix + " ") for a stripped message
StartsWith(message, prefix) == Len(message) >= 2 /\ message[1] = prefix

\* The positions at which a worker is inside a sendall call.
OwnWritePcs    == {"banner", "reply", "quit_write", "nick_taken", "nick_ok",
                   "send_reject", "pm_notfound"}
RouterWritePcs == {"bcast_write", "pm_write"}
WritePcs       == OwnWritePcs \cup RouterWritePcs

\* The positions at which a worker holds the lock.
LockedPcs == {"nick_purge", "nick_set", "nick_taken", "nick_ok",
              "send_reject", "bcast_cs", "bcast_write",
              "pm_notfound", "pm_write", "cleanup_purge"}

\* The socket a worker is writing to right now.
WriteTarget(w) == sent[w][Len(sent[w])][1]

\* The workers inside a sendall on socket h.
Writers(h) == {w \in Conns : pc[w] \in WritePcs /\ WriteTarget(w) = h}

\* sendall on socket h can return unless the server has closed h.  It can
\* raise at any moment: the client may reset its end whenever it likes.
SendCanSucceed(h) == pc[h] # "closed"

\* The session loop of w has not ended (it is before the cleanup).
EndedPcs == {"closed", "crashed_recv", "crashed_send"}
Running(w) == pc[w] \notin {"cleanup_wait", "cleanup_purge", "cleanup_close"} \cup EndedPcs

\* ---------------------------------------------------------------- Init
Init ==
    /\ clients = << >>
    /\ channels = << >>
    /\ lock = NoConn
    /\ pc = [w \in 1..NumConns |-> "banner"]
    /\ nickname = [w \in 1..NumConns |-> NoNick]
    /\ cmd = [w \in 1..NumConns |-> << >>]
    /\ sent = [w \in 1..NumConns |-> << <<w, <<"banner">> >> >>]
    /\ todo = [w \in 1..NumConns |-> {}]
    /\ wire = << >>
    /\ handled = << >>
    /\ routed = << >>
    /\ heard = << >>

\* ------------------------------------------------- moves shared by actions
\* Begin a sendall of `line` to socket h, at position p.
BeginWrite(w, h, line, p) ==
    /\ sent' = [sent EXCEPT ![w] = Append(@, <<h, line>>)]
    /\ pc' = [pc EXCEPT ![w] = p]

\* Back to the top of the while loop: blocked in recv.
ToRecv(w) ==
    /\ pc' = [pc EXCEPT ![w] = "recv"]
    /\ sent' = [sent EXCEPT ![w] = << >>]
    /\ cmd' = [cmd EXCEPT ![w] = << >>]

\* break: leave the while loop for the cleanup block.
Break(w) ==
    /\ pc' = [pc EXCEPT ![w] = "cleanup_wait"]
    /\ sent' = [sent EXCEPT ![w] = << >>]
    /\ cmd' = [cmd EXCEPT ![w] = << >>]

\* An exception leaves handle_client_connection: the thread ends, the
\* cleanup block after the loop is skipped and the socket is not closed.
\* A `with lock` block it was in releases the lock.  `how` tells the call
\* that raised: "crashed_recv" or "crashed_send".
Crash(w, how) ==
    /\ pc' = [pc EXCEPT ![w] = how]
    /\ sent' = [sent EXCEPT ![w] = << >>]
    /\ cmd' = [cmd EXCEPT ![w] = << >>]
    /\ lock' = IF lock = w THEN NoConn ELSE lock

\* ------------------------------------------------------------- banner
\* The six sendall calls of the welcome banner return (no other worker can
\* reach this socket yet: it is in no registry).
BannerSend(w) ==
    /\ pc[w] = "banner"
    /\ SendCanSucceed(w)
    /\ ToRecv(w)
    /\ UNCHANGED <<clients, channels, lock, nickname, todo>>
    /\ UNCHANGED framing
    /\ UNCHANGED observed

\* A sendall outside any try block raises (all of them write to the
\* worker's own socket).
OwnSendFails(w) ==
    /\ pc[w] \in OwnWritePcs
    /\ Crash(w, "crashed_send")
    /\ UNCHANGED <<clients, channels, nickname, todo>>
    /\ UNCHANGED framing
    /\ UNCHANGED observed

\* --------------------------------------------------------------- recv
\* recv returns b"" or raises ConnectionResetError: leave the loop.
RecvClosed(w) ==
    /\ pc[w] = "recv"
    /\ Break(w)
    /\ UNCHANGED <<clients, channels, lock, nickname, todo>>
    /\ UNCHANGED framing
    /\ UNCHANGED observed

\* recv raises something other than ConnectionResetError (a timeout, an
\* aborted connection), or data.decode() raises on bytes that are not UTF-8.
RecvError(w) ==
    /\ pc[w] = "recv"
    /\ Crash(w, "crashed_recv")
    /\ UNCHANGED <<clients, channels, nickname, todo>>
    /\ UNCHANGED framing
    /\ UNCHANGED observed

\* Mutant of InlineReply: /join does not test `if not nickname`.
InlineReply_JoinUnchecked(w, message) ==
    IF StartsWith(message, "/nick") THEN << >>
    ELSE IF StartsWith(message, "/join") THEN << >>
    ELSE IF StartsWith(message, "/send") THEN
        IF Len(message) < 3 THEN <<"usage_send">>
        ELSE IF nickname[w] = NoNick THEN <<"need_nick_send">> ELSE << >>
    ELSE IF StartsWith(message, "/pm") THEN
        IF Len(message) < 3 THEN <<"usage_pm">>
        ELSE IF nickname[w] = NoNick THEN <<"need_nick_pm">> ELSE << >>
    ELSE IF message = <<"/quit">> THEN <<"bye">>
    ELSE <<"unknown">>

\* The reply of the branches of the dispatch that only answer the client.
\* << >> where the branch goes on to the shared state.
InlineReply(w, message) ==
    IF StartsWith(message, "/nick") THEN << >>
    ELSE IF StartsWith(message, "/join") THEN
        IF nickname[w] = NoNick THEN <<"need_nick_join">> ELSE << >>
    ELSE IF StartsWith(message, "/send") THEN
        IF Len(message) < 3 THEN <<"usage_send">>
        ELSE IF nickname[w] = NoNick THEN <<"need_nick_send">> ELSE << >>
    ELSE IF StartsWith(message, "/pm") THEN
        IF Len(message) < 3 THEN <<"usage_pm">>
        ELSE IF nickname[w] = NoNick THEN <<"need_nick_pm">> ELSE << >>
    ELSE IF message = <<"/quit">> THEN <<"bye">>
    ELSE <<"unknown">>

\* The messages of the command `prefix` that worker w takes to the shared
\* state (they pass the checks made before `with lock`).
Issued(w, prefix) ==
    {message \in Lines : StartsWith(message, prefix) /\ InlineReply(w, message) = << >>}

\* recv returns a message of the command `prefix` that goes on to the
\* shared state: the dispatch computes its operands from locals and reaches
\* `with lock`, where the worker waits (position `wait`) until the lock is
\* free.  recv returns whether or not the lock is held.
RecvIssued(w, prefix, wait) ==
    /\ pc[w] = "recv"
    /\ \E message \in Issued(w, prefix) : cmd' = [cmd EXCEPT ![w] = message]
    /\ pc' = [pc EXCEPT ![w] = wait]
    /\ UNCHANGED <<clients, channels, lock, nickname, sent, todo>>
    /\ UNCHANGED framing
    /\ UNCHANGED observed

\* recv returns a blank line, or a message that is answered without the
\* lock: the dispatch runs up to its sendall.
RecvData(w) ==
    /\ pc[w] = "recv"
    /\ \E message \in Lines :
        /\ message = << >> \/ InlineReply(w, message) # << >>
        /\ IF message = << >>
              THEN UNCHANGED <<pc, sent>>
              ELSE BeginWrite(w, w, InlineReply(w, message),
                              IF message = <<"/quit">> THEN "quit_write" ELSE "reply")
    /\ UNCHANGED <<clients, channels, lock, nickname, cmd, todo>>
    /\ UNCHANGED framing
    /\ UNCHANGED observed

\* The sendall of an inline reply (or of the join acknowledgment) returns.
ReplySent(w) ==
    /\ pc[w] = "reply"
    /\ SendCanSucceed(w)
    /\ ToRecv(w)
    /\ UNCHANGED <<clients, channels, lock, nickname, todo>>
    /\ UNCHANGED framing
    /\ UNCHANGED observed

\* The sendall of "Disconnecting..." returns: break.
QuitSent(w) ==
    /\ pc[w] = "quit_write"
    /\ SendCanSucceed(w)
    /\ Break(w)
    /\ UNCHANGED <<clients, channels, lock, nickname, todo>>
    /\ UNCHANGED framing
    /\ UNCHANGED observed

\* -------------------------------------------------------------- /nick
\* recv returns "/nick <name>": the worker is at `with lock` (line 80).
RecvNick(w) ==
    RecvIssued(w, "/nick", "nick_wait")

\* Mutant of NickCheck: the test `desired_nick in clients` is missing.
NickCheck_NoTakenTest(w) ==
    /\ pc[w] = "nick_wait"
    /\ lock = NoConn
    /\ lock' = w
    /\ IF nickname[w] # NoNick /\ nickname[w] \in DOMAIN clients
          THEN /\ clients' = DictDel(clients, nickname[w])
               /\ pc' = [pc EXCEPT ![w] = "nick_purge"]
          ELSE /\ pc' = [pc EXCEPT ![w] = "nick_set"]
               /\ UNCHANGED clients
    /\ UNCHANGED <<channels, nickname, cmd, sent, todo>>
    /\ UNCHANGED framing
    /\ UNCHANGED observed

\* Mutant of NickCheck: the `with lock` is missing, the block runs unlocked.
NickCheck_NoLock(w) ==
    /\ pc[w] = "nick_wait"
    /\ IF cmd[w][2] \in DOMAIN clients
          THEN /\ BeginWrite(w, w, <<"taken">>, "nick_taken")
               /\ UNCHANGED clients
          ELSE IF nickname[w] # NoNick /\ nickname[w] \in DOMAIN clients
          THEN /\ clients' = DictDel(clients, nickname[w])
               /\ pc' = [pc EXCEPT ![w] = "nick_purge"]
               /\ UNCHANGED sent
          ELSE /\ pc' = [pc EXCEPT ![w] = "nick_set"]
               /\ UNCHANGED <<clients, sent>>
    /\ UNCHANGED <<channels, lock, nickname, cmd, todo>>
    /\ UNCHANGED framing
    /\ UNCHANGED observed

\* Mutant of NickCheck: the old nickname is unregistered before the test, so
\* a refused rename loses it.
NickCheck_DropOldFirst(w) ==
    /\ pc[w] = "nick_wait"
    /\ lock = NoConn
    /\ lock' = w
    /\ IF cmd[w][2] \in DOMAIN clients
          THEN /\ BeginWrite(w, w, <<"taken">>, "nick_taken")
               /\ clients' = DictDel(clients, nickname[w])
          ELSE IF nickname[w] # NoNick /\ nickname[w] \in DOMAIN clients
          THEN /\ clients' = DictDel(clients, nickname[w])
               /\ pc' = [pc EXCEPT ![w] = "nick_purge"]
               /\ UNCHANGED sent
          ELSE /\ pc' = [pc EXCEPT ![w] = "nick_set"]
               /\ UNCHANGED <<clients, sent>>
    /\ UNCHANGED <<channels, nickname, cmd, todo>>
    /\ UNCHANGED framing
    /\ UNCHANGED observed

\* Mutant of NickCheck: a name registered to the asking socket itself does
\* not count as taken.
NickCheck_OwnNameOk(w) ==
    /\ pc[w] = "nick_wait"
    /\ lock = NoConn
    /\ lock' = w
    /\ IF cmd[w][2] \in DOMAIN clients /\ clients[cmd[w][2]] # w
          THEN /\ BeginWrite(w, w, <<"taken">>, "nick_taken")
               /\ UNCHANGED clients
          ELSE IF nickname[w] # NoNick /\ nickname[w] \in DOMAIN clients
          THEN /\ clients' = DictDel(clients, nickname[w])
               /\ pc' = [pc EXCEPT ![w] = "nick_purge"]
               /\ UNCHANGED sent
          ELSE /\ pc' = [pc EXCEPT ![w] = "nick_set"]
               /\ UNCHANGED <<clients, sent>>
    /\ UNCHANGED <<channels, nickname, cmd, todo>>
    /\ UNCHANGED framing
    /\ UNCHANGED observed

\* recv returns "/nick <name>"; with lock:
\* if desired_nick in clients: sendall("Nickname already taken...")
\* else: if nickname and nickname in clients: del clients[nickname]
NickCheck(w) ==
    /\ pc[w] = "nick_wait"
    /\ lock = NoConn
    /\ lock' = w
    /\ IF cmd[w][2] \in DOMAIN clients
          THEN /\ BeginWrite(w, w, <<"taken">>, "nick_taken")
               /\ UNCHANGED clients
          ELSE IF nickname[w] # NoNick /\ nickname[w] \in DOMAIN clients
          THEN /\ clients' = DictDel(clients, nickname[w])
               /\ pc' = [pc EXCEPT ![w] = "nick_purge"]
               /\ UNCHANGED sent
          ELSE /\ pc' = [pc EXCEPT ![w] = "nick_set"]
               /\ UNCHANGED <<clients, sent>>
    /\ UNCHANGED <<channels, nickname, cmd, todo>>
    /\ UNCHANGED framing
    /\ UNCHANGED observed

\* Mutant of NickPurge: a rename leaves the old name in the channels.
NickPurge_NoPurge(w) ==
    /\ pc[w] = "nick_purge"
    /\ pc' = [pc EXCEPT ![w] = "nick_set"]
    /\ UNCHANGED <<clients, channels, lock, nickname, cmd, sent, todo>>
    /\ UNCHANGED framing
    /\ UNCHANGED observed

\* for ch in channels.values(): if nickname in ch: ch.remove(nickname)
NickPurge(w) ==
    /\ pc[w] = "nick_purge"
    /\ channels' = PurgeAll(channels, nickname[w])
    /\ pc' = [pc EXCEPT ![w] = "nick_set"]
    /\ UNCHANGED <<clients, lock, nickname, cmd, sent, todo>>
    /\ UNCHANGED framing
    /\ UNCHANGED observed

\* nickname = desired_nick; clients[nickname] = client_socket; sendall(...)
NickSet(w) ==
    /\ pc[w] = "nick_set"
    /\ nickname' = [nickname EXCEPT ![w] = cmd[w][2]]
    /\ clients' = DictPut(clients, cmd[w][2], w)
    /\ BeginWrite(w, w, <<"nick_set", cmd[w][2]>>, "nick_ok")
    /\ UNCHANGED <<channels, lock, cmd, todo>>
    /\ UNCHANGED framing
    /\ UNCHANGED observed

\* The reply written inside the critical section returns: leave `with lock`.
NickReplySent(w) ==
    /\ pc[w] \in {"nick_taken", "nick_ok"}
    /\ SendCanSucceed(w)
    /\ lock' = NoConn
    /\ ToRecv(w)
    /\ UNCHANGED <<clients, channels, nickname, todo>>
    /\ UNCHANGED framing
    /\ UNCHANGED observed

\* -------------------------------------------------------------- /join
\* recv returns "/join <channel>" and a nickname is set: the worker is at
\* `with lock` (line 108).
RecvJoin(w) ==
    RecvIssued(w, "/join", "join_wait")

\* with lock: create the channel if absent, add the nickname (the lock is
\* taken and released in this step).  The worker is then at line 113,
\* outside the lock and not yet inside its sendall.
JoinAdd(w) ==
    /\ pc[w] = "join_wait"
    /\ lock = NoConn
    /\ channels' = JoinChannel(channels, cmd[w][2], nickname[w])
    /\ pc' = [pc EXCEPT ![w] = "join_ack"]
    /\ UNCHANGED <<clients, lock, nickname, cmd, sent, todo>>
    /\ UNCHANGED framing
    /\ UNCHANGED observed

\* client_socket.sendall("You have joined channel ...") is called.
JoinAck(w) ==
    /\ pc[w] = "join_ack"
    /\ BeginWrite(w, w, <<"joined", cmd[w][2]>>, "reply")
    /\ UNCHANGED <<clients, channels, lock, nickname, cmd, todo>>
    /\ UNCHANGED framing
    /\ UNCHANGED observed

\* -------------------------------------------------------------- /send
\* Mutant of SendCheck: only the existence of the channel is tested.
SendCheck_ChannelOnly(w) ==
    /\ pc[w] = "send_wait"
    /\ lock = NoConn
    /\ IF cmd[w][2] \notin DOMAIN channels
          THEN /\ BeginWrite(w, w, <<"must_join", cmd[w][2]>>, "send_reject")
               /\ lock' = w
          ELSE /\ pc' = [pc EXCEPT ![w] = "bcast_wait"]
               /\ UNCHANGED <<lock, sent>>
    /\ UNCHANGED <<clients, channels, nickname, cmd, todo>>
    /\ UNCHANGED framing
    /\ UNCHANGED observed

\* recv returns "/send <channel> <message>" and a nickname is set: the
\* worker is at `with lock` (line 127).
RecvSend(w) ==
    RecvIssued(w, "/send", "send_wait")

\* with lock:
\*     if channel_name not in channels or nickname not in
\*     channels[channel_name]: sendall("You must join channel ..."); continue
\* Otherwise the lock is released before broadcast_channel_message is called.
SendCheck(w) ==
    /\ pc[w] = "send_wait"
    /\ lock = NoConn
    /\ IF cmd[w][2] \notin DOMAIN channels \/ nickname[w] \notin channels[cmd[w][2]]
          THEN /\ BeginWrite(w, w, <<"must_join", cmd[w][2]>>, "send_reject")
               /\ lock' = w
          ELSE /\ pc' = [pc EXCEPT ![w] = "bcast_wait"]
               /\ UNCHANGED <<lock, sent>>
    /\ UNCHANGED <<clients, channels, nickname, cmd, todo>>
    /\ UNCHANGED framing
    /\ UNCHANGED observed

\* Mutant of SendRejectSent: the `continue` goes back to recv with the lock
\* still held.
SendRejectSent_KeepLock(w) ==
    /\ pc[w] = "send_reject"
    /\ SendCanSucceed(w)
    /\ ToRecv(w)
    /\ UNCHANGED <<clients, channels, lock, nickname, todo>>
    /\ UNCHANGED framing
    /\ UNCHANGED observed

\* The "must join" reply returns: `continue` leaves the `with lock` block.
SendRejectSent(w) ==
    /\ pc[w] = "send_reject"
    /\ SendCanSucceed(w)
    /\ lock' = NoConn
    /\ ToRecv(w)
    /\ UNCHANGED <<clients, channels, nickname, todo>>
    /\ UNCHANGED framing
    /\ UNCHANGED observed

\* ------------------------------------------ broadcast_channel_message
\* The sockets the loop of w's /send will write to: those of the registered
\* members of the channel, but the sender's.
Eligible(w) ==
    {clients[n] : n \in (channels[cmd[w][2]] \cap DOMAIN clients) \ {nickname[w]}}

\* `routed` once w has begun the loop of a /send (kept for the senders
\* followed only).
Routing(w) ==
    IF w \in DOMAIN routed
       THEN [routed EXCEPT ![w] = Append(@, <<cmd[w][2], cmd[w][3], Eligible(w)>>)]
       ELSE routed

\* Mutant of Hearing, for BroadcastNext_QueueFront.
Hearing_QueueFront(w, h, line) ==
    IF w \in DOMAIN routed /\ h \in DOMAIN heard
       THEN [heard EXCEPT ![h] = << <<w, Len(routed[w]), line>> >> \o @]
       ELSE heard

\* `heard` once w has called sendall(line) on socket h (kept for the senders
\* and the sockets followed only).
Hearing(w, h, line) ==
    IF w \in DOMAIN routed /\ h \in DOMAIN heard
       THEN [heard EXCEPT ![h] = Append(@, <<w, Len(routed[w]), line>>)]
       ELSE heard

\* with lock: if channel_name not in channels: return
\* otherwise start the loop over channels[channel_name]
BroadcastEnter(w) ==
    /\ pc[w] = "bcast_wait"
    /\ lock = NoConn
    /\ IF cmd[w][2] \notin DOMAIN channels
          THEN /\ ToRecv(w)
               /\ UNCHANGED <<lock, todo, routed>>
          ELSE /\ lock' = w
               /\ todo' = [todo EXCEPT ![w] = channels[cmd[w][2]]]
               /\ pc' = [pc EXCEPT ![w] = "bcast_cs"]
               /\ routed' = Routing(w)
               /\ UNCHANGED <<cmd, sent>>
    /\ UNCHANGED <<clients, channels, nickname, heard>>
    /\ UNCHANGED framing

\* Mutant of BroadcastNext: the sender is not excluded.
BroadcastNext_NoExclude(w) ==
    /\ pc[w] = "bcast_cs"
    /\ \E n \in todo[w] :
        /\ todo' = [todo EXCEPT ![w] = @ \ {n}]
        /\ IF n \in DOMAIN clients
              THEN /\ BeginWrite(w, clients[n],
                                 <<"chan", cmd[w][2], nickname[w], cmd[w][3]>>, "bcast_write")
                   /\ heard' = Hearing(w, clients[n],
                                     <<"chan", cmd[w][2], nickname[w], cmd[w][3]>>)
              ELSE UNCHANGED <<pc, sent, heard>>
    /\ UNCHANGED <<clients, channels, lock, nickname, cmd, routed>>
    /\ UNCHANGED framing

\* Mutant of BroadcastNext: the line is not written at once but queued for
\* the socket, in front of the lines queued before.
BroadcastNext_QueueFront(w) ==
    /\ pc[w] = "bcast_cs"
    /\ \E n \in todo[w] :
        /\ todo' = [todo EXCEPT ![w] = @ \ {n}]
        /\ IF n \in DOMAIN clients /\ n # nickname[w]
              THEN /\ BeginWrite(w, clients[n],
                                 <<"chan", cmd[w][2], nickname[w], cmd[w][3]>>, "bcast_write")
                   /\ heard' = Hearing_QueueFront(w, clients[n],
                                     <<"chan", cmd[w][2], nickname[w], cmd[w][3]>>)
              ELSE UNCHANGED <<pc, sent, heard>>
    /\ UNCHANGED <<clients, channels, lock, nickname, cmd, routed>>
    /\ UNCHANGED framing

\* One iteration of the loop, the members in the set's own order:
\* if nickname in clients and nickname != sender_nick: clients[nickname].sendall(...)
BroadcastNext(w) ==
    /\ pc[w] = "bcast_cs"
    /\ \E n \in todo[w] :
        /\ todo' = [todo EXCEPT ![w] = @ \ {n}]
        /\ IF n \in DOMAIN clients /\ n # nickname[w]
              THEN /\ BeginWrite(w, clients[n],
                                 <<"chan", cmd[w][2], nickname[w], cmd[w][3]>>, "bcast_write")
                   /\ heard' = Hearing(w, clients[n],
                                     <<"chan", cmd[w][2], nickname[w], cmd[w][3]>>)
              ELSE UNCHANGED <<pc, sent, heard>>
    /\ UNCHANGED <<clients, channels, lock, nickname, cmd, routed>>
    /\ UNCHANGED framing

\* Mutant of BroadcastWriteFails: there is no try block, the exception
\* leaves broadcast_channel_message and the worker.
BroadcastWriteFails_Raise(w) ==
    /\ pc[w] = "bcast_write"
    /\ Crash(w, "crashed_send")
    /\ UNCHANGED <<clients, channels, nickname, todo>>
    /\ UNCHANGED framing
    /\ UNCHANGED observed

\* The sendall to a recipient raises (the recipient's client may have reset
\* its end at any time); `except: pass` swallows it and the loop goes on.
\* The entry of `sent` is marked "raised".
BroadcastWriteFails(w) ==
    /\ pc[w] = "bcast_write"
    /\ sent' = [sent EXCEPT ![w][Len(sent[w])] = Append(@, "raised")]
    /\ pc' = [pc EXCEPT ![w] = "bcast_cs"]
    /\ UNCHANGED <<clients, channels, lock, nickname, cmd, todo>>
    /\ UNCHANGED framing
    /\ UNCHANGED observed

\* The sendall to a recipient returns.
BroadcastWriteDone(w) ==
    /\ pc[w] = "bcast_write"
    /\ pc' = [pc EXCEPT ![w] = "bcast_cs"]
    /\ UNCHANGED <<clients, channels, lock, nickname, cmd, sent, todo>>
    /\ UNCHANGED framing
    /\ UNCHANGED observed

\* The loop is over: leave `with lock`, return to the while loop.
BroadcastEnd(w) ==
    /\ pc[w] = "bcast_cs"
    /\ todo[w] = {}
    /\ lock' = NoConn
    /\ ToRecv(w)
    /\ UNCHANGED <<clients, channels, nickname, todo>>
    /\ UNCHANGED framing
    /\ UNCHANGED observed

\* ---------------------------------------------------- private_message
\* Mutant of PmLookup: the test is inverted, a registered target is
\* reported as not found.
PmLookup_Inverted(w) ==
    /\ pc[w] = "pm_wait"
    /\ lock = NoConn
    /\ lock' = w
    /\ cmd[w][2] \in DOMAIN clients
    /\ BeginWrite(w, clients[nickname[w]], <<"not_found", cmd[w][2]>>, "pm_notfound")
    /\ UNCHANGED <<clients, channels, nickname, cmd, todo>>
    /\ UNCHANGED framing
    /\ UNCHANGED observed

\* recv returns "/pm <nick> <message>" and a nickname is set:
\* private_message is called and the worker is at its `with lock` (line 28).
RecvPm(w) ==
    RecvIssued(w, "/pm", "pm_wait")

\* with lock: if target_nick not in clients: tell the sender (if
\* sender_nick in clients) and return; else sendall the private line to the
\* target.  Where neither name is registered nothing is written: the lock
\* is taken and released and the worker is back at recv.
PmLookup(w) ==
    /\ pc[w] = "pm_wait"
    /\ lock = NoConn
    /\ IF cmd[w][2] \notin DOMAIN clients
          THEN IF nickname[w] \in DOMAIN clients
                  THEN /\ BeginWrite(w, clients[nickname[w]],
                                     <<"not_found", cmd[w][2]>>, "pm_notfound")
                       /\ lock' = w
                       /\ UNCHANGED cmd
                  ELSE /\ ToRecv(w)
                       /\ UNCHANGED lock
          ELSE /\ BeginWrite(w, clients[cmd[w][2]],
                             <<"priv", nickname[w], cmd[w][3]>>, "pm_write")
               /\ lock' = w
               /\ UNCHANGED cmd
    /\ UNCHANGED <<clients, channels, nickname, todo>>
    /\ UNCHANGED framing
    /\ UNCHANGED observed

\* The "not found" line is written: return (leaves `with lock`).
PmNotFoundSent(w) ==
    /\ pc[w] = "pm_notfound"
    /\ SendCanSucceed(WriteTarget(w))
    /\ lock' = NoConn
    /\ ToRecv(w)
    /\ UNCHANGED <<clients, channels, nickname, todo>>
    /\ UNCHANGED framing
    /\ UNCHANGED observed

\* The sendall to the target raises; `except: pass` swallows it.
PmWriteFails(w) ==
    /\ pc[w] = "pm_write"
    /\ lock' = NoConn
    /\ ToRecv(w)
    /\ UNCHANGED <<clients, channels, nickname, todo>>
    /\ UNCHANGED framing
    /\ UNCHANGED observed

\* The sendall to the target returns.
PmWriteDone(w) ==
    /\ pc[w] = "pm_write"
    /\ lock' = NoConn
    /\ ToRecv(w)
    /\ UNCHANGED <<clients, channels, nickname, todo>>
    /\ UNCHANGED framing
    /\ UNCHANGED observed

\* ------------------------------------------------------------ cleanup
\* with lock: (taken in this step)
\* if nickname and nickname in clients: del clients[nickname]
\* otherwise leave the lock: the worker is at line 167, the socket still open.
CleanupDel(w) ==
    /\ pc[w] = "cleanup_wait"
    /\ lock = NoConn
    /\ IF nickname[w] # NoNick /\ nickname[w] \in DOMAIN clients
          THEN /\ clients' = DictDel(clients, nickname[w])
               /\ pc' = [pc EXCEPT ![w] = "cleanup_purge"]
               /\ lock' = w
          ELSE /\ pc' = [pc EXCEPT ![w] = "cleanup_close"]
               /\ UNCHANGED <<lock, clients>>
    /\ UNCHANGED <<channels, nickname, cmd, sent, todo>>
    /\ UNCHANGED framing
    /\ UNCHANGED observed

\* Mutant of CleanupPurge: the channels are not purged.
CleanupPurge_NoPurge(w) ==
    /\ pc[w] = "cleanup_purge"
    /\ lock' = NoConn
    /\ pc' = [pc EXCEPT ![w] = "cleanup_close"]
    /\ UNCHANGED <<clients, channels, nickname, cmd, sent, todo>>
    /\ UNCHANGED framing
    /\ UNCHANGED observed

\* for ch in channels.values(): remove the nickname; leave the lock.
CleanupPurge(w) ==
    /\ pc[w] = "cleanup_purge"
    /\ channels' = PurgeAll(channels, nickname[w])
    /\ lock' = NoConn
    /\ pc' = [pc EXCEPT ![w] = "cleanup_close"]
    /\ UNCHANGED <<clients, nickname, cmd, sent, todo>>
    /\ UNCHANGED framing
    /\ UNCHANGED observed

\* client_socket.close(), outside the lock; the thread ends.
CleanupClose(w) ==
    /\ pc[w] = "cleanup_close"
    /\ pc' = [pc EXCEPT ![w] = "closed"]
    /\ UNCHANGED <<clients, channels, lock, nickname, cmd, sent, todo>>
    /\ UNCHANGED framing
    /\ UNCHANGED observed

\* ---------------------------------------------------------------- Next
Next ==
    \/ \E w \in Conns : BannerSend(w)
    \/ \E w \in Conns : OwnSendFails(w)
    \/ \E w \in Conns : RecvClosed(w)
    \/ \E w \in Conns : RecvError(w)
    \/ \E w \in Conns : RecvData(w)
    \/ \E w \in Conns : ReplySent(w)
    \/ \E w \in Conns : QuitSent(w)
    \/ \E w \in Conns : RecvNick(w)
    \/ \E w \in Conns : NickCheck(w)
    \/ \E w \in Conns : NickPurge(w)
    \/ \E w \in Conns : NickSet(w)
    \/ \E w \in Conns : NickReplySent(w)
    \/ \E w \in Conns : RecvJoin(w)
    \/ \E w \in Conns : JoinAdd(w)
    \/ \E w \in Conns : JoinAck(w)
    \/ \E w \in Conns : RecvSend(w)
    \/ \E w \in Conns : SendCheck(w)
    \/ \E w \in Conns : SendRejectSent(w)
    \/ \E w \in Conns : BroadcastEnter(w)
    \/ \E w \in Conns : BroadcastNext(w)
    \/ \E w \in Conns : BroadcastWriteDone(w)
    \/ \E w \in Conns : BroadcastWriteFails(w)
    \/ \E w \in Conns : BroadcastEnd(w)
    \/ \E w \in Conns : RecvPm(w)
    \/ \E w \in Conns : PmLookup(w)
    \/ \E w \in Conns : PmNotFoundSent(w)
    \/ \E w \in Conns : PmWriteDone(w)
    \/ \E w \in Conns : PmWriteFails(w)
    \/ \E w \in Conns : CleanupDel(w)
    \/ \E w \in Conns : CleanupPurge(w)
    \/ \E w \in Conns : CleanupClose(w)

Spec == Init /\ [][Next]_vars

\* ====================================================================
\* One connection at the level of bytes: lines 57-113
\* ====================================================================
\* The worker model above draws each recv's stripped message from Lines.
\* This part looks below that for one connection: what its client sends is
\* a text, recv cuts it into reads wherever the transport does, and each
\* read is decoded, stripped and dispatched as one message.  From the
\* dispatch on the worker takes the steps of the worker model, and the
\* other connections are served as in the worker model meanwhile.

\* Most pieces a client's text is made of, and most reads it arrives in.
MaxText == 2
MaxReads == 2

\* A text is a sequence of characters, made of the pieces "/nick ",
\* "/join ", "a", "a\n" and "\n".
Pieces ==
    {<<"/", "n", "i", "c", "k", " ">>, <<"/", "j", "o", "i", "n", " ">>,
     <<"a">>, <<"a", "\n">>, <<"\n">>}

RECURSIVE Flatten(_)
Flatten(ps) == IF ps = << >> THEN << >> ELSE Head(ps) \o Flatten(Tail(ps))

Texts == {Flatten(ps) : ps \in UNION {[1..k -> Pieces] : k \in 1..MaxText}}

\* The connection whose bytes are followed.
FramedConn == 1

\* str.isspace for the characters above
IsSpace(ch) == ch \in {" ", "\n"}

RECURSIVE LStrip(_)
LStrip(s) ==
    IF s = << >> THEN s
    ELSE IF IsSpace(Head(s)) THEN LStrip(Tail(s)) ELSE s

RECURSIVE RStrip(_)
RStrip(s) ==
    IF s = << >> THEN s
    ELSE IF IsSpace(s[Len(s)]) THEN RStrip(SubSeq(s, 1, Len(s) - 1)) ELSE s

\* str.strip()
Strip(s) == RStrip(LStrip(s))

\* The prefixes "/nick " and "/join " of the dispatch.
NickPrefix == <<"/", "n", "i", "c", "k", " ">>
JoinPrefix == <<"/", "j", "o", "i", "n", " ">>

\* message.startswith(prefix)
StartsWithChars(message, prefix) ==
    Len(message) >= Len(prefix) /\ SubSeq(message, 1, Len(prefix)) = prefix

\* message.split(" ", 1)[1]: what follows the first space
RECURSIVE AfterSpace(_)
AfterSpace(s) ==
    IF s = << >> THEN << >>
    ELSE IF Head(s) = " " THEN Tail(s) ELSE AfterSpace(Tail(s))

\* message.split(" ", 1)[1].strip()
Argument(message) == Strip(AfterSpace(message))

\* The branch of the dispatch a stripped message takes: `continue` for a
\* blank one, the two "cannot be empty" replies, the /nick and /join
\* branches proper, and the final else ("Unknown command").  (The
\* characters of Pieces spell no other command.)
Branch(message) ==
    IF message = << >> THEN "blank"
    ELSE IF StartsWithChars(message, NickPrefix) THEN
        IF Argument(message) = << >> THEN "nick_empty" ELSE "nick"
    ELSE IF StartsWithChars(message, JoinPrefix) THEN
        IF Argument(message) = << >> THEN "join_empty" ELSE "join"
    ELSE "unknown"

\* The reply of the branches that only answer the client, for a worker
\* whose local nickname is `nick`; << >> for a blank message and where the
\* branch goes on to the shared state.
FrameReply(message, nick) ==
    LET branch == Branch(message)
    IN  IF branch = "nick_empty" THEN <<"nick_empty">>
        ELSE IF branch = "join_empty" THEN <<"join_empty">>
        ELSE IF branch = "join" /\ nick = NoNick THEN <<"need_nick_join">>
        ELSE IF branch = "unknown" THEN <<"unknown">>
        ELSE << >>

\* The followed connection is blocked in recv with the client's text in
\* flight: right after the banner, or after it has claimed the nickname "a",
\* or after it has also joined the channel "x".  Another connection has
\* just been accepted.
FramingInit ==
    /\ \E had \in {"nothing", "nick", "nick_join"} :
        /\ nickname = [w \in 1..NumConns |->
               IF w = FramedConn /\ had # "nothing" THEN <<"a">> ELSE NoNick]
        /\ clients = IF had = "nothing" THEN << >>
                     ELSE DictPut(<< >>, <<"a">>, FramedConn)
        /\ channels = IF had = "nick_join"
                         THEN JoinChannel(<< >>, <<"x">>, <<"a">>)
                         ELSE << >>
    /\ lock = NoConn
    /\ pc = [w \in 1..NumConns |-> IF w = FramedConn THEN "recv" ELSE "banner"]
    /\ cmd = [w \in 1..NumConns |-> << >>]
    /\ sent = [w \in 1..NumConns |-> IF w = FramedConn THEN << >> ELSE << <<w, <<"banner">> >> >>]
    /\ todo = [w \in 1..NumConns |-> {}]
    /\ wire \in Texts
    /\ handled = << >>
    /\ routed = << >>
    /\ heard = << >>

\* data = client_socket.recv(1024) can return the first k characters in
\* flight: any non-empty prefix, and all of it in the last read followed.
CanRead(k) ==
    /\ pc[FramedConn] = "recv"
    /\ k \in 1..Len(wire)
    /\ Len(handled) + 1 >= MaxReads => k = Len(wire)

\* recv returns the first k characters; message = data.decode().strip().
TakeRead(k) ==
    LET data == SubSeq(wire, 1, k)
    IN  /\ wire' = SubSeq(wire, k + 1, Len(wire))
        /\ handled' = Append(handled, <<data, Strip(data), Branch(Strip(data))>>)

\* recv returns a read whose message is blank (`continue`) or is answered
\* without the lock: the dispatch runs up to its sendall.
FrameRecvInline ==
    /\ \E k \in 1..Len(wire) :
        /\ CanRead(k)
        /\ LET message == Strip(SubSeq(wire, 1, k))
               reply == FrameReply(message, nickname[FramedConn])
           IN  /\ Branch(message) = "blank" \/ reply # << >>
               /\ TakeRead(k)
               /\ IF Branch(message) = "blank"
                     THEN UNCHANGED <<pc, sent>>
                     ELSE BeginWrite(FramedConn, FramedConn, reply, "reply")
    /\ UNCHANGED <<clients, channels, lock, nickname, cmd, todo>>
    /\ UNCHANGED observed

\* recv returns a read whose message is "/nick <name>": the dispatch
\* computes desired_nick (line 75); the worker is then at line 80, before
\* `with lock`, where it waits while another worker holds the lock.
FrameRecvNick ==
    /\ \E k \in 1..Len(wire) :
        /\ CanRead(k)
        /\ Branch(Strip(SubSeq(wire, 1, k))) = "nick"
        /\ TakeRead(k)
        /\ cmd' = [cmd EXCEPT ![FramedConn] =
                      <<"/nick", Argument(Strip(SubSeq(wire, 1, k)))>>]
    /\ pc' = [pc EXCEPT ![FramedConn] = "nick_wait"]
    /\ UNCHANGED <<clients, channels, lock, nickname, sent, todo>>
    /\ UNCHANGED observed

\* recv returns a read whose message is "/join <channel>" and a nickname is
\* set: the dispatch computes channel_name (line 99); the worker is then at
\* line 108, before `with lock`.
FrameRecvJoin ==
    /\ nickname[FramedConn] # NoNick
    /\ \E k \in 1..Len(wire) :
        /\ CanRead(k)
        /\ Branch(Strip(SubSeq(wire, 1, k))) = "join"
        /\ TakeRead(k)
        /\ cmd' = [cmd EXCEPT ![FramedConn] =
                      <<"/join", Argument(Strip(SubSeq(wire, 1, k)))>>]
    /\ pc' = [pc EXCEPT ![FramedConn] = "join_wait"]
    /\ UNCHANGED <<clients, channels, lock, nickname, sent, todo>>
    /\ UNCHANGED observed

\* The followed connection reads from its text; after the read it takes the
\* steps of the worker model (NickCheck and JoinAdd at its `with lock`); the
\* other connections take all of them.
FramingNext ==
    \/ FrameRecvInline
    \/ FrameRecvNick
    \/ FrameRecvJoin
    \/ \E w \in Conns \ {FramedConn} : RecvData(w)
    \/ \E w \in Conns \ {FramedConn} : RecvNick(w)
    \/ \E w \in Conns \ {FramedConn} : RecvJoin(w)
    \/ \E w \in Conns \ {FramedConn} : RecvSend(w)
    \/ \E w \in Conns \ {FramedConn} : RecvPm(w)
    \/ \E w \in Conns : NickCheck(w)
    \/ \E w \in Conns : JoinAdd(w)
    \/ \E w \in Conns : SendCheck(w)
    \/ \E w \in Conns : PmLookup(w)
    \/ \E w \in Conns : BannerSend(w)
    \/ \E w \in Conns : OwnSendFails(w)
    \/ \E w \in Conns : RecvClosed(w)
    \/ \E w \in Conns : RecvError(w)
    \/ \E w \in Conns : ReplySent(w)
    \/ \E w \in Conns : QuitSent(w)
    \/ \E w \in Conns : NickPurge(w)
    \/ \E w \in Conns : NickSet(w)
    \/ \E w \in Conns : NickReplySent(w)
    \/ \E w \in Conns : JoinAck(w)
    \/ \E w \in Conns : SendRejectSent(w)
    \/ \E w \in Conns : BroadcastEnter(w)
    \/ \E w \in Conns : BroadcastNext(w)
    \/ \E w \in Conns : BroadcastWriteDone(w)
    \/ \E w \in Conns : BroadcastWriteFails(w)
    \/ \E w \in Conns : BroadcastEnd(w)
    \/ \E w \in Conns : PmNotFoundSent(w)
    \/ \E w \in Conns : PmWriteDone(w)
    \/ \E w \in Conns : PmWriteFails(w)
    \/ \E w \in Conns : CleanupDel(w)
    \/ \E w \in Conns : CleanupPurge(w)
    \/ \E w \in Conns : CleanupClose(w)

FramingSpec == FramingInit /\ [][FramingNext]_vars

\* ====================================================================
\* Delivery among the members of one channel: lines 8-38, 115-147
\* ====================================================================
\* The worker model with more connections and fewer commands: every
\* connection has registered a nickname and joined the channel "x", and the
\* clients send /send and /pm lines or go away.  The first connection is
\* the sender followed: its client's texts all differ, its broadcasts are
\* recorded in `routed` and its sendall calls on the other sockets in `heard`.

\* Number of connections, and most broadcasts of the sender followed.
NumMembers == 3
MaxSends == 2

\* The nicknames of the connections, in the order of the connections.
MemberNames == <<"a", "b", "c", "d", "e">>
NameOf(w) == << MemberNames[w] >>

\* The sender followed, and the texts its client sends, in this order (a
\* text whose /send was refused is sent again).
Speaker == 1
SpeakerTexts == <<"m", "n", "o", "p">>

\* Every connection is blocked in recv after "/nick <its name>" and
\* "/join x".
DeliveryInit ==
    /\ pc = [w \in 1..NumMembers |-> "recv"]
    /\ nickname = [w \in 1..NumMembers |-> NameOf(w)]
    /\ clients = [n \in {NameOf(w) : w \in 1..NumMembers} |->
                     CHOOSE w \in 1..NumMembers : NameOf(w) = n]
    /\ channels = [c \in {<<"x">>} |-> {NameOf(w) : w \in 1..NumMembers}]
    /\ lock = NoConn
    /\ cmd = [w \in 1..NumMembers |-> << >>]
    /\ sent = [w \in 1..NumMembers |-> << >>]
    /\ todo = [w \in 1..NumMembers |-> {}]
    /\ wire = << >>
    /\ handled = << >>
    /\ routed = [w \in {Speaker} |-> << >>]
    /\ heard = [h \in (1..NumMembers) \ {Speaker} |-> << >>]

\* RecvSend for the sender followed: recv returns "/send <channel> <text>"
\* with the next text of its client, as long as it has broadcasts left; the
\* worker is then at `with lock` (line 127), where SendCheck takes it on.
SpeakerSend ==
    /\ pc[Speaker] = "recv"
    /\ nickname[Speaker] # NoNick
    /\ Len(routed[Speaker]) < MaxSends
    /\ \E c \in Chans :
        cmd' = [cmd EXCEPT ![Speaker] =
                   <<"/send", c, << SpeakerTexts[Len(routed[Speaker]) + 1] >> >>]
    /\ pc' = [pc EXCEPT ![Speaker] = "send_wait"]
    /\ UNCHANGED <<clients, channels, lock, nickname, sent, todo>>
    /\ UNCHANGED framing
    /\ UNCHANGED observed

DeliveryNext ==
    \/ SpeakerSend
    \/ \E w \in Conns \ {Speaker} : RecvSend(w)
    \/ \E w \in Conns : SendCheck(w)
    \/ \E w \in Conns : OwnSendFails(w)
    \/ \E w \in Conns : RecvClosed(w)
    \/ \E w \in Conns : RecvError(w)
    \/ \E w \in Conns : SendRejectSent(w)
    \/ \E w \in Conns : BroadcastEnter(w)
    \/ \E w \in Conns : BroadcastNext(w)
    \/ \E w \in Conns : BroadcastWriteDone(w)
    \/ \E w \in Conns : BroadcastWriteFails(w)
    \/ \E w \in Conns : BroadcastEnd(w)
    \/ \E w \in Conns : RecvPm(w)
    \/ \E w \in Conns : PmLookup(w)
    \/ \E w \in Conns : PmNotFoundSent(w)
    \/ \E w \in Conns : PmWriteDone(w)
    \/ \E w \in Conns : PmWriteFails(w)
    \/ \E w \in Conns : CleanupDel(w)
    \/ \E w \in Conns : CleanupPurge(w)
    \/ \E w \in Conns : CleanupClose(w)

DeliverySpec == DeliveryInit /\ [][DeliveryNext]_vars

\* ====================================================================
\* Properties
\* ====================================================================
\* The nicknames registered to socket h.
NamesOf(h) == {n \in DOMAIN clients : clients[n] = h}

\* The members of some channel.
AllMembers == UNION {channels[c] : c \in DOMAIN channels}

\* The positions of the branch of /nick that found the name free.
NickWinPcs == {"nick_purge", "nick_set", "nick_ok"}

\* C1: nickname uniqueness.  No two running session loops hold the same
\* nickname; a /nick n is on its successful branch only while no other running
\* session holds n and, until it is inserted, n is in the registry for nobody;
\* the session answered "Nickname set to" owns the entry; a /nick n is
\* answered "already taken" only while n is registered.  Two workers racing
\* for a free n are therefore answered once "set" and once "taken".
C1_NicknameUnique ==
    /\ \A s, t \in Conns :
        (s # t /\ Running(s) /\ Running(t) /\ nickname[s] # NoNick)
            => nickname[s] # nickname[t]
    /\ \A t \in Conns :
        /\ pc[t] \in NickWinPcs =>
            \A s \in Conns \ {t} : Running(s) => nickname[s] # cmd[t][2]
        /\ pc[t] \in {"nick_purge", "nick_set"} => cmd[t][2] \notin DOMAIN clients
        /\ pc[t] = "nick_ok" =>
            /\ nickname[t] = cmd[t][2]
            /\ NamesOf(t) = {cmd[t][2]}
            /\ sent[t] = << <<t, <<"nick_set", cmd[t][2]>> >> >>
        /\ pc[t] = "nick_taken" =>
            /\ cmd[t][2] \in DOMAIN clients
            /\ sent[t] = << <<t, <<"taken">> >> >>

\* C1 witness: the loser of a race is being answered "already taken" while
\* the running session that won holds the name.
C1_Witness ==
    \E s, t \in Conns :
        /\ s # t
        /\ pc[t] = "nick_taken"
        /\ nickname[t] = NoNick
        /\ Running(s)
        /\ nickname[s] = cmd[t][2]
        /\ clients[cmd[t][2]] = s

\* C2: cleanup always runs.  A worker that has finished, on whatever path,
\* has left no registry entry for its socket and no channel entry for its
\* nickname (a member entry of that name belongs to a later holder).
C2_CleanupAlwaysRuns ==
    \A w \in Conns :
        (pc[w] \in EndedPcs /\ nickname[w] # NoNick) =>
            /\ NamesOf(w) = {}
            /\ nickname[w] \in AllMembers =>
                (nickname[w] \in DOMAIN clients /\ clients[nickname[w]] # w)

\* C3: per-connection write serialization.  At most one worker is inside a
\* sendall on any one socket.
C3_WritesSerialized ==
    \A h \in Conns : Cardinality(Writers(h)) <= 1

\* C4: rename atomicity.  Whenever a worker t is inside a critical section
\* (the only place where shared state is read), every other running session
\* that has a nickname is registered under exactly that nickname, and a name
\* that is a channel member without being registered is t's own, between its
\* unregistration and its purge.
C4_RenameAtomic ==
    \A t \in Conns :
        pc[t] \in LockedPcs =>
            /\ lock = t
            /\ \A s \in Conns \ {t} :
                /\ pc[s] \notin LockedPcs
                /\ (Running(s) /\ nickname[s] # NoNick) => NamesOf(s) = {nickname[s]}
                /\ (Running(s) /\ nickname[s] = NoNick) => NamesOf(s) = {}
            /\ \A n \in AllMembers \ DOMAIN clients :
                n = nickname[t] /\ pc[t] \in {"nick_purge", "cleanup_purge"}

\* C4 witness: a rename is half done (the old name is unregistered and still
\* a channel member, the new one not yet inserted) while another session is
\* running, whose /nick has been read and waits for the lock to test the
\* registry.
C4_Witness ==
    \E s, t \in Conns :
        /\ s # t
        /\ pc[s] = "nick_purge"
        /\ lock = s
        /\ nickname[s] \in AllMembers
        /\ nickname[s] \notin DOMAIN clients
        /\ cmd[s][2] \notin DOMAIN clients
        /\ pc[t] = "nick_wait"

\* C5 as stated: in every reachable state every channel member is registered.
C5_MembersRegisteredAlways ==
    AllMembers \subseteq DOMAIN clients

\* C5 amended: every channel member is registered, except the nickname of the
\* lock holder between its unregistration and its purge of the channels.
C5_MembersRegistered ==
    \A n \in AllMembers \ DOMAIN clients :
        \E w \in Conns :
            /\ lock = w
            /\ pc[w] \in {"nick_purge", "cleanup_purge"}
            /\ nickname[w] = n

\* C5 witness: a session that was a channel member has disconnected or
\* renamed, and its old name is gone from the registry and from the channels.
C5_Witness ==
    \E w \in Conns :
        /\ pc[w] \in {"closed", "nick_set"}
        /\ nickname[w] # NoNick
        /\ nickname[w] \notin DOMAIN clients
        /\ \E c \in DOMAIN channels : channels[c] = {}

\* The sockets a worker has written to during its current command.
Targets(w) == {sent[w][i][1] : i \in 1..Len(sent[w])}

\* Worker w is a member of the channel its /send names.
SenderIsMember(w) ==
    cmd[w][2] \in DOMAIN channels /\ nickname[w] \in channels[cmd[w][2]]

\* C6: membership gating.  A /send whose sender is not a member of the
\* channel when the check runs never reaches the broadcast: the worker is on
\* the broadcast path only while it is a member, and on the rejecting path
\* it is no member and its only write is the "must join" line to itself.
C6_MembershipGating ==
    \A w \in Conns :
        /\ pc[w] \in {"bcast_wait", "bcast_cs", "bcast_write"} => SenderIsMember(w)
        /\ pc[w] = "send_reject" =>
            /\ ~SenderIsMember(w)
            /\ sent[w] = << <<w, <<"must_join", cmd[w][2]>> >> >>
        /\ \A i \in 1..Len(sent[w]) :
            sent[w][i][2][1] = "chan" =>
                (pc[w] \in {"bcast_cs", "bcast_write"} /\ SenderIsMember(w))

\* C6 witness: a /send is being rejected although the channel exists and has
\* a registered member who would have received the message.
C6_Witness ==
    \E w \in Conns :
        /\ pc[w] = "send_reject"
        /\ cmd[w][2] \in DOMAIN channels
        /\ \E n \in channels[cmd[w][2]] : n \in DOMAIN clients /\ clients[n] # w

\* The members of the channel of w's /send the loop has already visited and
\* that were eligible: registered and not the sender.
Delivered(w) ==
    {n \in (channels[cmd[w][2]] \ todo[w]) \cap DOMAIN clients : n # nickname[w]}

\* C7: broadcast exclusion and coverage.  At every point of the loop the
\* writes made so far are exactly one per eligible member already visited,
\* each carrying the line of this /send; none goes to the sender's own
\* socket.  With todo empty this is the whole broadcast.
C7_BroadcastCoverage ==
    \A w \in Conns :
        pc[w] \in {"bcast_cs", "bcast_write"} =>
            /\ Len(sent[w]) = Cardinality(Delivered(w))
            /\ Targets(w) = {clients[n] : n \in Delivered(w)}
            /\ w \notin Targets(w)
            /\ \A i \in 1..Len(sent[w]) :
                sent[w][i][2] = <<"chan", cmd[w][2], nickname[w], cmd[w][3]>>

\* C7 witness: a broadcast is complete, one line went to another member and
\* the sender, a member itself, got none.
C7_Witness ==
    \E w \in Conns :
        /\ pc[w] = "bcast_cs"
        /\ todo[w] = {}
        /\ Len(sent[w]) >= 1
        /\ nickname[w] \in channels[cmd[w][2]]

\* C8: disconnect cleanup effect.  A /nick n is answered "already taken"
\* only while the socket registered under n belongs to a session that has
\* not ended by /quit or by a failed or empty read; and a name that has just
\* been claimed is a member of no channel.
C8_DisconnectFreesName ==
    \A t \in Conns :
        /\ pc[t] = "nick_taken" =>
            pc[clients[cmd[t][2]]] \notin {"closed", "crashed_recv"}
        /\ pc[t] = "nick_ok" => nickname[t] \notin AllMembers

\* C9: name taken leaves state unchanged.  A /nick n takes its successful
\* branch only if n is in the registry for nobody; otherwise it is answered
\* "already taken", and from that check to the end of the reply no step
\* changes the registry, the channels or any local nickname, and the worker
\* goes back to recv unless the write of the reply raised.
C9_TakenStep ==
    \A t \in Conns :
        /\ (pc[t] = "nick_wait" /\ pc'[t] \in NickWinPcs)
            => cmd[t][2] \notin DOMAIN clients
        /\ (pc[t] = "nick_wait" /\ pc'[t] = "nick_taken")
            => /\ cmd[t][2] \in DOMAIN clients
               /\ sent'[t] = << <<t, <<"taken">> >> >>
               /\ UNCHANGED <<clients, channels, nickname>>
        /\ (pc[t] = "nick_taken" /\ clients[cmd[t][2]] # t)
            => /\ UNCHANGED <<clients, channels, nickname>>
               /\ pc'[t] \in {"nick_taken", "recv", "crashed_send"}

C9_NameTakenUnchanged == [][C9_TakenStep]_vars

\* C9 witness: a rename is being refused: the session keeps its old name and
\* its channel membership, the name it asked for belongs to a running session.
C9_Witness ==
    \E s, t \in Conns :
        /\ s # t
        /\ pc[t] = "nick_taken"
        /\ clients[cmd[t][2]] = s
        /\ Running(s)
        /\ nickname[t] # NoNick
        /\ clients[nickname[t]] = t
        /\ nickname[t] \in AllMembers

\* C10: unknown private-message target.  The "not found" line is written
\* exactly when the target is unregistered at the lookup: it is then the only
\* write of the command and goes to the sender's own socket (a session that
\* can issue /pm is registered, so the line is never skipped), neither the
\* lookup nor the end of that write changes the registry or the channels,
\* and the target of a private line is always registered.
C10_LookupStep ==
    \A w \in Conns :
        /\ (pc[w] = "pm_wait" /\ pc'[w] = "pm_notfound")
            => /\ cmd[w][2] \notin DOMAIN clients
               /\ sent'[w] = << <<w, <<"not_found", cmd[w][2]>> >> >>
               /\ UNCHANGED <<clients, channels, nickname>>
        /\ (nickname[w] # NoNick /\ pc[w] \in {"recv", "pm_wait"})
            => NamesOf(w) = {nickname[w]}
        /\ (pc[w] = "pm_wait" /\ pc'[w] # "pm_wait")
            => /\ pc'[w] \in {"pm_notfound", "pm_write"}
               /\ pc'[w] = "pm_notfound" <=> cmd[w][2] \notin DOMAIN clients
        /\ pc[w] = "pm_notfound"
            => /\ UNCHANGED <<clients, channels, nickname>>
               /\ pc'[w] \in {"pm_notfound", "recv", "crashed_send"}
        /\ pc'[w] = "pm_write" => cmd'[w][2] \in DOMAIN clients'

C10_UnknownTarget == [][C10_LookupStep]_vars

\* C10 witness: the "not found" line is being written while the other
\* session is registered under another name.
C10_Witness ==
    \E w \in Conns :
        /\ pc[w] = "pm_notfound"
        /\ cmd[w][2] \notin DOMAIN clients
        /\ \E s \in Conns \ {w} : Running(s) /\ NamesOf(s) # {}

\* Everything the reads of `h` returned, put together again.
RECURSIVE Received(_)
Received(h) == IF h = << >> THEN << >> ELSE Head(h)[1] \o Received(Tail(h))

\* The messages the dispatch took as commands (the blank ones are skipped).
RECURSIVE Processed(_)
Processed(h) ==
    IF h = << >> THEN << >>
    ELSE (IF Head(h)[3] = "blank" THEN << >> ELSE << Head(h)[2] >>) \o Processed(Tail(h))

\* The commands of a text of newline-terminated lines: its non-blank lines,
\* stripped, in order.  `line` is the part of the current line read so far.
RECURSIVE CommandsOf(_, _)
CommandsOf(text, line) ==
    IF text = << >> THEN << >>
    ELSE IF Head(text) = "\n"
        THEN (IF Strip(line) = << >> THEN << >> ELSE << Strip(line) >>)
             \o CommandsOf(Tail(text), << >>)
    ELSE CommandsOf(Tail(text), Append(line, Head(text)))

\* C11: one command per line.  Once a text of newline-terminated lines has
\* been read to its end, the messages the server dispatched are exactly the
\* non-blank lines of the text, in order, however recv cut the text.
C11_OneCommandPerLine ==
    (/\ wire = << >>
     /\ handled # << >>
     /\ Received(handled)[Len(Received(handled))] = "\n")
        => Processed(handled) = CommandsOf(Received(handled), << >>)

\* A read that is one whole line made of "/nick" or "/join", a space and
\* nothing but whitespace after it.
EmptyArgLine(data, prefix) ==
    /\ StartsWithChars(data, prefix)
    /\ Argument(data) = << >>
    /\ data[Len(data)] = "\n"

\* C12: empty-argument errors.  A line "/nick" with an empty or blank name
\* is answered "Nickname cannot be empty." and a line "/join" with an empty
\* or blank channel name "Channel name cannot be empty.": while the reply
\* to such a read is being written, it is that line.
C12_EmptyArgumentErrors ==
    (handled # << >> /\ pc[FramedConn] = "reply") =>
        LET data == handled[Len(handled)][1]
            reply == sent[FramedConn][1][2]
        IN  /\ EmptyArgLine(data, NickPrefix) => reply = <<"nick_empty">>
            /\ EmptyArgLine(data, JoinPrefix) => reply = <<"join_empty">>

\* The replies an unauthenticated session gets to anything but /nick and
\* /quit.
UnauthReplies ==
    {<<"need_nick_join">>, <<"need_nick_send">>, <<"need_nick_pm">>,
     <<"usage_send">>, <<"usage_pm">>, <<"unknown">>}

\* C13: unauthenticated sessions cannot affect shared state.  A session
\* without a nickname owns no registry entry and is no channel member; a
\* command it reads is a /nick, a /quit, or is answered by one line to its own
\* socket with the registry, the channels and every nickname unchanged; and
\* its nickname is set only by the insertion of a successful /nick.
C13_UnauthStep ==
    \A w \in Conns :
        /\ nickname[w] = NoNick =>
            /\ NamesOf(w) = {}
            /\ NoNick \notin AllMembers
            /\ \A i \in 1..Len(sent[w]) : sent[w][i][1] = w
        /\ (nickname[w] = NoNick /\ pc[w] = "recv") =>
            /\ pc'[w] \in {"recv", "reply", "quit_write", "nick_wait",
                           "cleanup_wait", "crashed_recv"}
            /\ pc'[w] = "reply" =>
                /\ \E r \in UnauthReplies : sent'[w] = << <<w, r>> >>
                /\ UNCHANGED <<clients, channels, nickname>>
        /\ (nickname[w] = NoNick /\ pc[w] = "nick_wait" /\ pc'[w] # "nick_wait") =>
            /\ pc'[w] \in {"nick_taken", "nick_set"}
            /\ UNCHANGED <<clients, channels, nickname>>
        /\ (nickname[w] = NoNick /\ pc[w] = "reply" /\ pc'[w] # "reply") =>
            /\ pc'[w] \in {"recv", "crashed_send"}
            /\ UNCHANGED <<clients, channels, nickname>>
        /\ (nickname[w] = NoNick /\ nickname'[w] # NoNick) =>
            /\ pc[w] = "nick_set" /\ pc'[w] = "nick_ok"
            /\ nickname'[w] = cmd[w][2]
            /\ cmd[w][2] \notin DOMAIN clients
            /\ clients' = DictPut(clients, cmd[w][2], w)

C13_UnauthNoEffect == [][C13_UnauthStep]_vars

\* C13 witness: a session without a nickname is being told to set one in
\* answer to a /join, while a registered session is a member of a channel.
C13_Witness ==
    \E w \in Conns :
        /\ nickname[w] = NoNick
        /\ pc[w] = "reply"
        /\ sent[w] = << <<w, <<"need_nick_join">> >> >>
        /\ \E s \in Conns \ {w} :
            /\ Running(s)
            /\ NamesOf(s) = {nickname[s]}
            /\ nickname[s] \in AllMembers

\* The Router writes of w's current command that raised.
Raised(w) == {i \in 1..Len(sent[w]) : Len(sent[w][i]) = 3}

\* C14: delivery errors are swallowed.  The end of a Router write, raised or
\* not, leaves the worker in the loop with the lock held and the shared state
\* as it was; after a write has raised the loop still visits every member
\* left (each eligible one visited so far has had its write), writes nothing
\* to the sender's own socket, changes no shared state and ends at recv with
\* the lock released; the end of a private write, raised or not, does the
\* same.
C14_FailStep ==
    \A w \in Conns :
        /\ (pc[w] = "bcast_write" /\ pc'[w] # "bcast_write") =>
            /\ pc'[w] = "bcast_cs"
            /\ lock' = w
            /\ UNCHANGED <<clients, channels, nickname, todo, cmd>>
        /\ (pc[w] = "bcast_cs" /\ Raised(w) # {}) =>
            /\ Len(sent[w]) = Cardinality(Delivered(w))
            /\ todo[w] # {} => pc'[w] \in {"bcast_cs", "bcast_write"}
            /\ pc'[w] \in {"bcast_cs", "bcast_write", "recv"}
            /\ pc'[w] = "recv" => lock' = NoConn
            /\ \A i \in 1..Len(sent'[w]) : sent'[w][i][1] # w
            /\ UNCHANGED <<clients, channels, nickname>>
        /\ (pc[w] = "pm_write" /\ pc'[w] # "pm_write") =>
            /\ pc'[w] = "recv"
            /\ lock' = NoConn
            /\ UNCHANGED <<clients, channels, nickname>>

C14_ErrorsSwallowed == [][C14_FailStep]_vars

\* C14 witness: a write of a broadcast has raised and the loop is inside
\* the write to the next registered member, another socket.
C14_Witness ==
    \E w \in Conns :
        /\ pc[w] = "bcast_write"
        /\ Raised(w) # {}
        /\ \A i \in Raised(w) : sent[w][i][1] # WriteTarget(w)
        /\ Len(sent[w][Len(sent[w])]) = 2

\* C15: re-claiming one's own name.  A /nick n from the session that holds n
\* takes the "already taken" branch: from the test to the end of the reply
\* the entry of n stays the session's own, and the registry, the channels
\* and every nickname stay as they were.
C15_ReclaimStep ==
    \A t \in Conns :
        /\ (/\ pc[t] = "nick_wait"
            /\ pc'[t] \in NickWinPcs \cup {"nick_taken"}
            /\ nickname[t] # NoNick
            /\ cmd[t][2] = nickname[t])
            => /\ pc'[t] = "nick_taken"
               /\ UNCHANGED <<clients, channels, nickname>>
        /\ (pc[t] = "nick_taken" /\ cmd[t][2] = nickname[t])
            => /\ clients[nickname[t]] = t
               /\ clients'[nickname[t]] = t
               /\ UNCHANGED <<clients, channels, nickname>>
               /\ pc'[t] \in {"nick_taken", "recv", "crashed_send"}

C15_ReclaimKeepsName == [][C15_ReclaimStep]_vars

\* C15 witness: a session that is a channel member is being answered on a
\* /nick for the name it holds, while another session is registered.
C15_Witness ==
    \E s, t \in Conns :
        /\ s # t
        /\ pc[t] = "nick_taken"
        /\ cmd[t][2] = nickname[t]
        /\ clients[nickname[t]] = t
        /\ nickname[t] \in AllMembers
        /\ Running(s)
        /\ NamesOf(s) # {}

\* The sendall calls on socket b that belong to the k-th broadcast of w.
AttemptsOf(b, w, k) ==
    {q \in 1..Len(heard[b]) : heard[b][q][1] = w /\ heard[b][q][2] = k}

\* The k-th broadcast of w has returned.
RoutingOver(w, k) == k < Len(routed[w]) \/ pc[w] \notin {"bcast_cs", "bcast_write"}

\* The sendall q on socket b carries the text of the k-th broadcast of w.
Carries(b, q, w, k) ==
    /\ heard[b][q][3][1] = "chan"
    /\ heard[b][q][3][2] = routed[w][k][1]
    /\ heard[b][q][3][4] = routed[w][k][2]

\* C16: per-sender ordering.  If a sender's i-th and a later j-th broadcast
\* go to the same channel and the socket b belongs to a registered member of
\* the channel at both, then every write of the j-th text to b comes after a
\* write of the i-th text to b, and once the j-th broadcast has returned
\* its write to b has been attempted.
C16_PerSenderOrder ==
    \A w \in DOMAIN routed : \A b \in DOMAIN heard :
        \A i, j \in 1..Len(routed[w]) :
            (/\ i < j
             /\ routed[w][i][1] = routed[w][j][1]
             /\ b \in routed[w][i][3] \cap routed[w][j][3])
                => /\ \A q \in AttemptsOf(b, w, j) :
                        /\ Carries(b, q, w, j)
                        /\ \E p \in AttemptsOf(b, w, i) : p < q /\ Carries(b, p, w, i)
                   /\ RoutingOver(w, j) => AttemptsOf(b, w, j) # {}

\* C16 witness: the sender followed has made two broadcasts of different
\* texts to one channel, both with two other registered members, and both
\* texts have been written to each of them.
C16_Witness ==
    /\ Speaker \in DOMAIN routed
    /\ Len(routed[Speaker]) = 2
    /\ routed[Speaker][1][1] = routed[Speaker][2][1]
    /\ routed[Speaker][1][2] # routed[Speaker][2][2]
    /\ Cardinality(routed[Speaker][1][3] \cap routed[Speaker][2][3]) >= 2
    /\ \A b \in routed[Speaker][1][3] \cap routed[Speaker][2][3] :
        /\ b \in DOMAIN heard
        /\ AttemptsOf(b, Speaker, 1) # {}
        /\ AttemptsOf(b, Speaker, 2) # {}

\* The members of channel c, none if the channel does not exist.
MembersOf(chs, c) == IF c \in DOMAIN chs THEN chs[c] ELSE {}

\* C17: a newly registered nickname starts with no memberships.  The name a
\* successful /nick is about to insert, and has just inserted, is a member of
\* no channel; a registered member name is the current nickname of the
\* session it is registered to; and a name becomes a member of a channel only
\* by a /join of the session that holds it.
C17_FreshStep ==
    /\ \A t \in Conns :
        /\ pc[t] = "nick_set" => cmd[t][2] \notin AllMembers
        /\ pc[t] = "nick_ok" => nickname[t] \notin AllMembers
    /\ \A n \in AllMembers \cap DOMAIN clients : nickname[clients[n]] = n
    /\ \A c \in DOMAIN channels' :
        \A n \in channels'[c] \ MembersOf(channels, c) :
            \E w \in Conns :
                /\ nickname[w] = n
                /\ clients[n] = w
                /\ pc[w] = "join_wait" /\ pc'[w] = "join_ack"
                /\ cmd[w][2] = c

C17_FreshNickname == [][C17_FreshStep]_vars

\* C17 witness: a session has just registered a name that a session now
\* closed held before, and a channel has been emptied by a purge.
C17_Witness ==
    \E s, t \in Conns :
        /\ s # t
        /\ pc[t] = "nick_ok"
        /\ pc[s] = "closed"
        /\ nickname[s] = nickname[t]
        /\ \E c \in DOMAIN channels : channels[c] = {}

\* C18: registry entries reference live owners only.  Every entry of the
\* registry maps a nickname to the socket of a worker that has not ended and
\* whose local nickname is that key, the Router writes only to sockets of
\* workers that have not ended, and a closed socket is in no entry.
C18_EntriesLive ==
    /\ \A n \in DOMAIN clients :
        /\ pc[clients[n]] \notin EndedPcs
        /\ nickname[clients[n]] = n
    /\ \A w \in Conns :
        /\ pc[w] \in RouterWritePcs => pc[WriteTarget(w)] \notin EndedPcs
        /\ pc[w] = "closed" => NamesOf(w) = {}

\* The positions at which a worker is blocked in recv, is waiting for the
\* lock, writes outside any critical section, or has ended.
UnlockedPcs ==
    {"banner", "recv", "reply", "quit_write", "nick_wait", "join_wait", "join_ack",
     "send_wait", "bcast_wait", "pm_wait", "cleanup_wait", "cleanup_close"}
        \cup EndedPcs

\* C19: lock discipline.  The lock is free or held by a worker inside one of
\* its critical sections: a worker that is blocked in recv, waits for the
\* lock or has ended (returned or died of an exception, also one raised
\* inside a critical section) does not hold it.
C19_LockDiscipline ==
    /\ lock \in Conns \cup {NoConn}
    /\ \A w \in Conns :
        /\ pc[w] \in UnlockedPcs \cup LockedPcs
        /\ pc[w] \in UnlockedPcs => lock # w
        /\ lock = w => pc[w] \in LockedPcs

\* C19 witness: a worker whose client has not registered sits in recv while
\* another worker holds the lock and writes the "must join" rejection.
C19_Witness ==
    \E w, t \in Conns :
        /\ w # t
        /\ pc[w] = "recv"
        /\ nickname[w] = NoNick
        /\ pc[t] = "send_reject"
        /\ lock = t

\* C20: the gap between the send-time check and the recipient resolution is
\* harmless.  While a worker waits to re-acquire the lock for its broadcast,
\* no step of any worker removes its channel, its membership or its registry
\* entry, and its own next step is the entry of the loop with the sender
\* among the members, never the `return` for a missing channel.
C20_GapStep ==
    \A w \in Conns :
        pc[w] = "bcast_wait" =>
            /\ cmd[w][2] \in DOMAIN channels
            /\ nickname[w] \in channels[cmd[w][2]]
            /\ clients[nickname[w]] = w
            /\ cmd[w][2] \in DOMAIN channels'
            /\ nickname'[w] \in channels'[cmd[w][2]]
            /\ clients'[nickname'[w]] = w
            /\ pc'[w] \in {"bcast_wait", "bcast_cs"}
            /\ pc'[w] = "bcast_cs" =>
                /\ lock = NoConn /\ lock' = w
                /\ todo'[w] = channels[cmd[w][2]]
                /\ nickname[w] \in todo'[w]

C20_GapHarmless == [][C20_GapStep]_vars

\* C20 witness: a sender is in the gap while another member of its channel
\* is in the middle of its disconnect cleanup, unregistered and not yet
\* purged from the channel.
C20_Witness ==
    \E w, t \in Conns :
        /\ w # t
        /\ pc[w] = "bcast_wait"
        /\ pc[t] = "cleanup_purge"
        /\ nickname[t] \in channels[cmd[w][2]]
        /\ nickname[t] \notin DOMAIN clients

====
